---- MODULE Spec2Model ----
(***************************************************************************)
(* pydicti: case insensitive dictionaries built by subclassing a base      *)
(* mapping type (src/pydicti.py).  A container is the inherited dictionary *)
(* (original-case key -> value, in iteration order) together with the      *)
(* private side table __case (lower-case key -> original-case key).        *)
(***************************************************************************)
EXTENDS Integers, Sequences, FiniteSets, TLC

\* ------------------------------------------------------------------ bounds
\* the most pairs handed to the constructor
MaxInit == 2
\* the most pairs handed to update()
MaxUpdate == 1
\* the most changing calls made after a copy was taken
MaxAfterCopy == 1

\* ------------------------------------------------------------------- keys
\* A str key is the sequence of its character codes; any other hashable
\* object (2, (), None, ...) is a key of kind "obj".
Str(s) == [kind |-> "str", val |-> s]
Obj(i) == [kind |-> "obj", val |-> <<i>>]

\* "Hi", "hi", "A" and the integer 2
Keys == {Str(<<72, 105>>), Str(<<104, 105>>), Str(<<65>>), Obj(2)}
\* the values stored, as in the tests (d = cls(a=0); d['a'] = 1)
Values == {0, 1}
Pairs == [key : Keys, value : Values]
\* the sources of the constructor and of update(): a mapping or a sequence
\* of pairs, as the sequence of its items (no key twice; two keys may still
\* have the same lower case)
Sources(max) ==
    UNION {{s \in [1 .. n -> Pairs] :
                \A i, j \in 1 .. n : i # j => s[i].key # s[j].key} :
           n \in 0 .. max}
Bases == {"dict", "OrderedDict"}

\* str.lower() on one ASCII character
lower_char(ch) == IF ch \in 65 .. 90 THEN ch + 32 ELSE ch

\* _lower(s): s.lower() when s has that method, otherwise s itself
_lower(s) ==
    IF s.kind = "str"
    THEN [s EXCEPT !.val = [i \in DOMAIN s.val |-> lower_char(s.val[i])]]
    ELSE s

\* ------------------------------------------------- the inherited dict_
\* dict_ is modelled as the sequence of its items in iteration order.
dict_contains(store, key) == \E i \in DOMAIN store : store[i].key = key

dict_index(store, key) == CHOOSE i \in DOMAIN store : store[i].key = key

dict_getitem(store, key) == store[dict_index(store, key)].value

\* an existing key keeps its slot, a new key goes to the end
dict_setitem(store, key, value) ==
    IF dict_contains(store, key)
    THEN [store EXCEPT ![dict_index(store, key)].value = value]
    ELSE Append(store, [key |-> key, value |-> value])

\* as dict_delitem, but the last item is moved into the freed slot
dict_delitem_swap(store, key) ==
    IF ~dict_contains(store, key) THEN store
    ELSE LET i == dict_index(store, key)
             n == Len(store)
         IN  IF i = n THEN SubSeq(store, 1, n - 1)
             ELSE [j \in 1 .. (n - 1) |-> IF j = i THEN store[n] ELSE store[j]]

dict_delitem(store, key) == SelectSeq(store, LAMBDA e : e.key # key)

\* ------------------------------------------------------------- outcomes
\* The outcome of a method: the container it leaves behind, the exception
\* it raised ("none" if it returned) and what it returned (an absent key or
\* value is the empty sequence).
_marker == <<>>

\* the empty side table {}
EmptyCase == [n \in {} |-> n]

Return(store, case, key, val) ==
    [store |-> store, case |-> case, exc |-> "none", key |-> key, val |-> val]

Raise(store, case, exc) ==
    [store |-> store, case |-> case, exc |-> exc, key |-> <<>>, val |-> <<>>]

\* True and False are the integers 1 and 0
Bool(b) == IF b THEN 1 ELSE 0

\* ------------------------------------------------------- Dicti methods
__contains__(c, key) == _lower(key) \in DOMAIN c.case

\* as __getitem__, but the key itself is looked up in dict_
getitem_case_sensitive(c, key) ==
    IF ~dict_contains(c.store, key)
    THEN Raise(c.store, c.case, "KeyError")
    ELSE Return(c.store, c.case, <<>>, <<dict_getitem(c.store, key)>>)

__getitem__(c, key) ==
    LET lower == _lower(key) IN
    IF lower \notin DOMAIN c.case
    THEN Raise(c.store, c.case, "KeyError")
    ELSE IF ~dict_contains(c.store, c.case[lower])
    THEN Raise(c.store, c.case, "KeyError")
    ELSE Return(c.store, c.case, <<>>, <<dict_getitem(c.store, c.case[lower])>>)

\* as __delitem__, but without "del self.__case[lower]"
delitem_keeps_case(c, key) ==
    LET lower == _lower(key) IN
    IF lower \notin DOMAIN c.case
    THEN Raise(c.store, c.case, "KeyError")
    ELSE IF ~dict_contains(c.store, c.case[lower])
    THEN Raise(c.store, c.case, "KeyError")
    ELSE Return(dict_delitem(c.store, c.case[lower]), c.case, <<>>, <<>>)

\* as __delitem__, but the side table entry goes first and dict_ is then
\* asked to delete the key as given
delitem_case_first(c, key) ==
    LET lower == _lower(key)
        rest == [n \in DOMAIN c.case \ {lower} |-> c.case[n]]
    IN
    IF lower \notin DOMAIN c.case
    THEN Raise(c.store, c.case, "KeyError")
    ELSE IF ~dict_contains(c.store, key)
    THEN Raise(c.store, rest, "KeyError")
    ELSE Return(dict_delitem(c.store, key), rest, <<>>, <<>>)

__delitem__(c, key) ==
    LET lower == _lower(key) IN
    IF lower \notin DOMAIN c.case
    THEN Raise(c.store, c.case, "KeyError")
    ELSE IF ~dict_contains(c.store, c.case[lower])
    THEN Raise(c.store, c.case, "KeyError")
    ELSE Return(dict_delitem(c.store, c.case[lower]),
                [n \in DOMAIN c.case \ {lower} |-> c.case[n]],
                <<>>, <<>>)

\* as __setitem__, but without "if key in self: del self[key]"
setitem_without_delete(c, key, value) ==
    Return(dict_setitem(c.store, key, value),
           [n \in DOMAIN c.case \cup {_lower(key)} |->
               IF n = _lower(key) THEN key ELSE c.case[n]],
           <<>>, <<>>)

\* as __setitem__, but an entry that exists keeps the key it has
setitem_keeps_casing(c, key, value) ==
    IF __contains__(c, key)
    THEN Return(dict_setitem(c.store, c.case[_lower(key)], value), c.case, <<>>, <<>>)
    ELSE Return(dict_setitem(c.store, key, value),
                [n \in DOMAIN c.case \cup {_lower(key)} |->
                    IF n = _lower(key) THEN key ELSE c.case[n]],
                <<>>, <<>>)

\* as __setitem__, but dict_ is given the lower-case key
setitem_stores_lower(c, key, value) ==
    LET d == IF __contains__(c, key)
             THEN __delitem__(c, key)
             ELSE Return(c.store, c.case, <<>>, <<>>)
    IN
    IF d.exc # "none"
    THEN d
    ELSE Return(dict_setitem(d.store, _lower(key), value),
                [n \in DOMAIN d.case \cup {_lower(key)} |->
                    IF n = _lower(key) THEN _lower(key) ELSE d.case[n]],
                <<>>, <<>>)

__setitem__(c, key, value) ==
    LET d == IF __contains__(c, key)
             THEN __delitem__(c, key)
             ELSE Return(c.store, c.case, <<>>, <<>>)
    IN
    IF d.exc # "none"
    THEN d
    ELSE Return(dict_setitem(d.store, key, value),
                [n \in DOMAIN d.case \cup {_lower(key)} |->
                    IF n = _lower(key) THEN key ELSE d.case[n]],
                <<>>, <<>>)

\* what get returns for an absent key when no default is given
None == 3

\* as get, but the default returned for an absent key is stored under it
get_inserts_default(c, key, default) ==
    LET r == __getitem__(c, key) IN
    IF r.exc = "KeyError"
    THEN LET s == __setitem__(c, key, default[1]) IN
         Return(s.store, s.case, <<>>, default)
    ELSE r

\* MutableMapping.get
get(c, key, default) ==
    LET r == __getitem__(c, key) IN
    IF r.exc = "KeyError" THEN Return(c.store, c.case, <<>>, default) ELSE r

\* as setdefault, but a key that is contained is set again, to the value it
\* has
setdefault_sets_again(c, key, default) ==
    LET r == __getitem__(c, key) IN
    IF r.exc = "KeyError"
    THEN LET s == __setitem__(c, key, default) IN
         IF s.exc # "none" THEN s ELSE Return(s.store, s.case, <<>>, <<default>>)
    ELSE LET s == __setitem__(c, key, r.val[1]) IN
         Return(s.store, s.case, <<>>, r.val)

\* MutableMapping.setdefault
setdefault(c, key, default) ==
    LET r == __getitem__(c, key) IN
    IF r.exc = "KeyError"
    THEN LET s == __setitem__(c, key, default) IN
         IF s.exc # "none" THEN s ELSE Return(s.store, s.case, <<>>, <<default>>)
    ELSE r

\* as popitem, but the last key of iter(self) is taken
popitem_last(c) ==
    IF c.store = <<>>
    THEN Raise(c.store, c.case, "KeyError")
    ELSE LET key == c.store[Len(c.store)].key
             r == __getitem__(c, key)
             d == __delitem__(c, key)
         IN  IF r.exc # "none" THEN r
             ELSE IF d.exc # "none" THEN d
             ELSE Return(d.store, d.case, <<key>>, r.val)

\* MutableMapping.popitem: the first key of iter(self)
popitem(c) ==
    IF c.store = <<>>
    THEN Raise(c.store, c.case, "KeyError")
    ELSE LET key == c.store[1].key
             r == __getitem__(c, key)
             d == __delitem__(c, key)
         IN  IF r.exc # "none" THEN r
             ELSE IF d.exc # "none" THEN d
             ELSE Return(d.store, d.case, <<key>>, r.val)

\* as update, but the pairs are taken last to first
RECURSIVE update_reversed(_, _)
update_reversed(c, pairs) ==
    IF pairs = <<>>
    THEN Return(c.store, c.case, <<>>, <<>>)
    ELSE LET p == pairs[Len(pairs)]
             s == __setitem__(c, p.key, p.value)
         IN  IF s.exc # "none"
             THEN s
             ELSE update_reversed([store |-> s.store, case |-> s.case],
                                  SubSeq(pairs, 1, Len(pairs) - 1))

\* as update, but a pair whose key is contained already is skipped
RECURSIVE update_first_wins(_, _)
update_first_wins(c, pairs) ==
    IF pairs = <<>>
    THEN Return(c.store, c.case, <<>>, <<>>)
    ELSE LET s == IF __contains__(c, Head(pairs).key)
                  THEN Return(c.store, c.case, <<>>, <<>>)
                  ELSE __setitem__(c, Head(pairs).key, Head(pairs).value)
         IN  IF s.exc # "none"
             THEN s
             ELSE update_first_wins([store |-> s.store, case |-> s.case],
                                    Tail(pairs))

\* MutableMapping.update with a sequence of pairs
RECURSIVE update(_, _)
update(c, pairs) ==
    IF pairs = <<>>
    THEN Return(c.store, c.case, <<>>, <<>>)
    ELSE LET s == __setitem__(c, Head(pairs).key, Head(pairs).value) IN
         IF s.exc # "none"
         THEN s
         ELSE update([store |-> s.store, case |-> s.case], Tail(pairs))

\* as clear, but without "self.__case.clear()"
clear_keeps_case(c) == Return(<<>>, c.case, <<>>, <<>>)

\* dict_.clear(self), then self.__case.clear()
clear(c) == Return(<<>>, EmptyCase, <<>>, <<>>)

\* as pop, but "key in self" asks dict_ for the key as given
pop_case_sensitive(c, key, default) ==
    IF dict_contains(c.store, key)
    THEN LET r == __getitem__(c, key)
             d == __delitem__(c, key)
         IN  IF r.exc # "none" THEN r
             ELSE IF d.exc # "none" THEN d
             ELSE Return(d.store, d.case, <<>>, r.val)
    ELSE IF default = _marker
    THEN Raise(c.store, c.case, "KeyError")
    ELSE Return(c.store, c.case, <<>>, default)

\* as pop, but without "del self[key]"
pop_without_delete(c, key, default) ==
    IF __contains__(c, key)
    THEN __getitem__(c, key)
    ELSE IF default = _marker
    THEN Raise(c.store, c.case, "KeyError")
    ELSE Return(c.store, c.case, <<>>, default)

pop(c, key, default) ==
    IF __contains__(c, key)
    THEN LET r == __getitem__(c, key)
             d == __delitem__(c, key)
         IN  IF r.exc # "none" THEN r
             ELSE IF d.exc # "none" THEN d
             ELSE Return(d.store, d.case, <<>>, r.val)
    ELSE IF default = _marker
    THEN Raise(c.store, c.case, "KeyError")
    ELSE Return(c.store, c.case, <<>>, default)

\* Dicti.__init__: an empty side table, an empty dict_, then update(*args)
__init__(pairs) == update([store |-> <<>>, case |-> EmptyCase], pairs)

\* keys(), values() and items() of the inherited dict_
keys(store) == [i \in DOMAIN store |-> store[i].key]
values(store) == [i \in DOMAIN store |-> store[i].value]
items(store) == [i \in DOMAIN store |-> <<store[i].key, store[i].value>>]
len(store) == Len(store)

\* ------------------------------------------------------------- objects
\* An object is a case insensitive container ("Dicti": an instance of
\* build_dicti(base)), a plain mapping of type base ("map"), a list of
\* pairs ("list") or something that is no mapping at all ("object").  Its id
\* is its identity: two names with the same id are bound to one object.
Dictionary(id, base, c) ==
    [id |-> id, kind |-> "Dicti", base |-> base, store |-> c.store, case |-> c.case]

Plain(id, kind, base, pairs) ==
    [id |-> id, kind |-> kind, base |-> base, store |-> pairs, case |-> EmptyCase]

\* isinstance(obj, MutableMapping)
IsMapping(obj) == obj.kind \in {"Dicti", "map"}

\* the value __eq__ returns when it does not know the other operand
NotImplemented == 2

\* dict_(pairs): the base dictionary built from a sequence of pairs
RECURSIVE dict_new(_, _)
dict_new(store, pairs) ==
    IF pairs = <<>> THEN store
    ELSE dict_new(dict_setitem(store, Head(pairs).key, Head(pairs).value),
                  Tail(pairs))

\* the == of the base types: that of two OrderedDict compares the items in
\* order, every other combination compares them as a set
dict_eq(abase, a, bbase, b) ==
    IF abase = "OrderedDict" /\ bbase = "OrderedDict"
    THEN a = b
    ELSE /\ Len(a) = Len(b)
         /\ \A i \in DOMAIN a : \E j \in DOMAIN b : a[i] = b[j]

\* lower_items(): the items with lower-case keys
lower_items(store) ==
    [i \in DOMAIN store |-> [key |-> _lower(store[i].key), value |-> store[i].value]]

\* lower_dict(): dict_(self.lower_items())
lower_dict(store) == dict_new(<<>>, lower_items(store))

\* as Dicti, but the container is a dicti whatever the type of obj
Dicti_over_dict(obj, id) ==
    LET o == __init__(obj.store) IN Dictionary(id, "dict", o)

\* Dicti(obj): build_dicti(type(obj))(obj), a new object with identity id
Dicti(obj, id) ==
    LET o == __init__(obj.store) IN Dictionary(id, obj.base, o)

\* as __eq__, but a plain mapping is compared as it is, without Dicti(other)
eq_without_wrapping(a, b) ==
    IF ~IsMapping(b)
    THEN Return(a.store, a.case, <<>>, <<NotImplemented>>)
    ELSE Return(a.store, a.case, <<>>,
                <<Bool(dict_eq(a.base, lower_dict(a.store),
                               b.base, IF b.kind = "Dicti"
                                       THEN lower_dict(b.store)
                                       ELSE b.store))>>)

\* as __eq__, but the lower_dict() of the two are compared as plain dict
eq_ignores_order(a, b) ==
    IF ~IsMapping(b)
    THEN Return(a.store, a.case, <<>>, <<NotImplemented>>)
    ELSE LET other == IF b.kind = "Dicti" THEN b ELSE Dicti(b, 0) IN
         Return(a.store, a.case, <<>>,
                <<Bool(dict_eq("dict", lower_dict(a.store),
                               "dict", lower_dict(other.store)))>>)

\* as __eq__, but the base type's == of the left operand alone decides, and
\* that of an OrderedDict compares in order whatever the right operand is
eq_left_decides(a, b) ==
    IF ~IsMapping(b)
    THEN Return(a.store, a.case, <<>>, <<NotImplemented>>)
    ELSE LET other == IF b.kind = "Dicti" THEN b ELSE Dicti(b, 0) IN
         Return(a.store, a.case, <<>>,
                <<Bool(dict_eq(a.base, lower_dict(a.store),
                               a.base, lower_dict(other.store)))>>)

\* as __eq__, but an operand that is no mapping is unequal
eq_false_for_object(a, b) ==
    IF ~IsMapping(b)
    THEN Return(a.store, a.case, <<>>, <<Bool(FALSE)>>)
    ELSE LET other == IF b.kind = "Dicti" THEN b ELSE Dicti(b, 0) IN
         Return(a.store, a.case, <<>>,
                <<Bool(dict_eq(a.base, lower_dict(a.store),
                               other.base, lower_dict(other.store)))>>)

\* a.__eq__(b) for a container a
__eq__(a, b) ==
    IF ~IsMapping(b)
    THEN Return(a.store, a.case, <<>>, <<NotImplemented>>)
    ELSE LET other == IF b.kind = "Dicti" THEN b ELSE Dicti(b, 0) IN
         Return(a.store, a.case, <<>>,
                <<Bool(dict_eq(a.base, lower_dict(a.store),
                               other.base, lower_dict(other.store)))>>)

\* what update(other) and cls(other) iterate over: the pairs of a list,
\* the (key, other[key]) of a mapping
pairs_of(other) ==
    IF other.kind = "Dicti"
    THEN [i \in DOMAIN other.store |->
             [key |-> other.store[i].key,
              value |-> __getitem__(other, other.store[i].key).val[1]]]
    ELSE other.store

\* as __copy__, but the container itself is returned
copy_returns_self(obj, id) == obj

\* __copy__(): self.__class__(self), a new object with identity id
__copy__(obj, id) == Dictionary(id, obj.base, __init__(pairs_of(obj)))

\* copy(): self.__copy__()
copy(obj, id) == __copy__(obj, id)

\* cls.__name__ as build_dicti sets it: base.__name__ + 'i', or the name
\* given ('odicti')
ClassName(b) == IF b = "dict" THEN "dicti" ELSE "odicti"

\* repr(obj): '%s(%r)' % (self.__class__.__name__, list(self.items()))
__repr__(obj) == [name |-> ClassName(obj.base), args |-> items(obj.store)]

\* "for key, value in other" of update(): a list of 2-tuples as pairs
unpack(tuples) ==
    [i \in DOMAIN tuples |-> [key |-> tuples[i][1], value |-> tuples[i][2]]]

\* the object a repr evaluates to: the class of that name called with the
\* list of items
eval(r, id) ==
    Dictionary(id, CHOOSE b \in Bases : ClassName(b) = r.name,
               __init__(unpack(r.args)))

\* a != b for two containers: Dicti defines no __ne__, so the one of dict_
\* compares the inherited dictionaries, keys as they are
__ne__(a, b) == ~dict_eq(a.base, a.store, b.base, b.store)

\* __getstate__() of a dicti: dict_(self), the inherited dictionary copied
__getstate__(c) == dict_new(<<>>, c.store)

\* as __setstate__, but the items of the state go straight into dict_ and
\* the side table stays empty
setstate_fills_dict(c, state) ==
    Return(dict_new(c.store, state), EmptyCase, <<>>, <<>>)

\* __setstate__(state) of a dicti: a new side table, then
\* update(state.items())
__setstate__(c, state) == update([store |-> c.store, case |-> EmptyCase], state)

\* ------------------------------------ the package src/pydicti/__init__.py
\* The package is an earlier state of the module.  Its __init__ and
\* __setitem__ leave what those of the module leave; its __copy__ differs.
\* update(other) for an other that is no mapping and has no keys():
\* "for key, value in other: self[key] = value", with other the values of a
\* container.  A value is an int, which cannot be unpacked: TypeError, at
\* the first one.
update_values(c, vals) ==
    IF vals = <<>>
    THEN Return(c.store, c.case, <<>>, <<>>)
    ELSE Raise(c.store, c.case, "TypeError")

\* the package's __copy__(): self.__class__(self.values()); what it raised
\* and the object it returned, with identity id
package__copy__(obj, id) ==
    LET o == update_values([store |-> <<>>, case |-> EmptyCase],
                           values(obj.store))
    IN  [exc |-> o.exc,
         obj |-> IF o.exc = "none" THEN <<Dictionary(id, obj.base, o)>> ELSE <<>>]

\* the package's copy(): self.__copy__()
package_copy(obj, id) == package__copy__(obj, id)

\* ---------------------------------------------------------- the registry
\* the types a class may be asked for: mutable mapping types, and types
\* that are no mapping
MappingTypes == {"dict", "OrderedDict", "UserDict", "defaultdict"}
BaseTypes == MappingTypes \cup {"list", "int"}

\* issubclass(base, MutableMapping)
issubclass(b) == b \in MappingTypes

\* A dotted name is the sequence of its parts, '' and None the empty one;
\* a module name is a string, '' for '' and None.
\* base.__name__ + 'i'
DefaultName(b) ==
    <<CASE b = "dict" -> "dicti"
        [] b = "OrderedDict" -> "OrderedDicti"
        [] b = "UserDict" -> "UserDicti"
        [] OTHER -> "defaultdicti">>

\* _make_dicti(dict_): a new class object, with identity id
_make_dicti(id, dict_) == [id |-> id, kind |-> "class", base |-> dict_]

\* the outcome of build_dicti: the registry it leaves, the exception it
\* raised, the class it returned and the classes it made
Built(reg, exc, cls, made) ==
    [reg |-> reg, exc |-> exc, cls |-> cls, made |-> made]

\* the class build_dicti makes for a base type that has none yet:
\* _make_dicti(base), then __name__, __module__ and __qualname__ are set
NewClass(id, b, name, module, caller) ==
    LET cls == _make_dicti(id, b)
        n == IF name = <<>> THEN DefaultName(b) ELSE name
    IN  [id |-> cls.id, kind |-> cls.kind, base |-> cls.base,
         name |-> n[Len(n)],
         module |-> IF module = "" THEN caller ELSE module,
         qualname |-> n]

\* as build_dicti, but a class is made and registered whether or not the
\* base type has one
build_dicti_always_makes(reg, id, b, name, module, caller) ==
    IF ~issubclass(b)
    THEN Built(reg, "TypeError", <<>>, <<>>)
    ELSE LET cls == NewClass(id, b, name, module, caller) IN
         Built([k \in DOMAIN reg \cup {b} |-> IF k = b THEN cls ELSE reg[k]],
               "none", <<cls>>, <<cls>>)

\* as build_dicti, but without the issubclass check
build_dicti_any_base(reg, id, b, name, module, caller) ==
    IF b \in DOMAIN reg
    THEN Built(reg, "none", <<reg[b]>>, <<>>)
    ELSE LET cls == NewClass(id, b, name, module, caller) IN
         Built([k \in DOMAIN reg \cup {b} |-> IF k = b THEN cls ELSE reg[k]],
               "none", <<cls>>, <<cls>>)

\* build_dicti(base, name, module), called from the module caller, with id
\* the identity of the class if one is made
build_dicti(reg, id, b, name, module, caller) ==
    IF b \in DOMAIN reg
    THEN Built(reg, "none", <<reg[b]>>, <<>>)
    ELSE IF ~issubclass(b)
    THEN Built(reg, "TypeError", <<>>, <<>>)
    ELSE LET cls == NewClass(id, b, name, module, caller) IN
         Built([k \in DOMAIN reg \cup {b} |-> IF k = b THEN cls ELSE reg[k]],
               "none", <<cls>>, <<cls>>)

\* the module once imported: _built_dicties = {}, dicti = build_dicti(dict)
\* and odicti = build_dicti(OrderedDict, 'odicti')
Imported ==
    LET first == build_dicti(EmptyCase, 1, "dict", <<>>, "", "pydicti")
        second == build_dicti(first.reg, 2, "OrderedDict", <<"odicti">>, "", "pydicti")
    IN  [reg |-> second.reg, dicti |-> first.cls[1], odicti |-> second.cls[1],
         made |-> first.made \o second.made]

dicti == Imported.dicti
odicti == Imported.odicti

\* ------------------------------------------------------------------ state
VARIABLES
    _built_dicties,  \* the registry: base type -> the class built for it
    base,       \* the base type dict_ of the container's class
    store,      \* the inherited dict_: its items in iteration order
    case,       \* self.__case: lower-case key -> original-case key
    call,       \* the last method called and its key argument
    result,     \* what that call raised and returned
    removed,    \* the keys that call took out of the inherited dict_
    lastSet,    \* history: per lower-case key, the last (key, value) given to
                \* set since the last delete of that lower-case key
    insOrder,   \* history: the keys in the order of their insertion, while
                \* the history is plain
    plain,      \* history: since construction from pairs with distinct
                \* lower-case keys, only sets of new keys, deletes and reads
    others,     \* the other objects of the program, in the order of their
                \* creation (none while the program has one container only)
    age         \* the number of changing calls made since a copy was taken

vars == <<_built_dicties, base, store, case, call, result, removed, lastSet,
          insOrder, plain, others, age>>

self == [store |-> store, case |-> case]

KeySet(st) == {st[i].key : i \in DOMAIN st}

\* the effect of a method call on the container and on what the caller
\* sees; outcome is what the method, called once, leaves and returns
Effect(outcome, name, key) ==
    \E o \in {outcome} :
        /\ store' = o.store
        /\ case' = o.case
        /\ call' = [op |-> name, key |-> key]
        /\ result' = [exc |-> o.exc, key |-> o.key, val |-> o.val]
        /\ removed' = KeySet(store) \ KeySet(o.store)
        /\ UNCHANGED <<_built_dicties, others, age>>

\* history bookkeeping
NoteSet(ls, key, value) ==
    [n \in DOMAIN ls \cup {_lower(key)} |->
        IF n = _lower(key) THEN [key |-> key, value |-> value] ELSE ls[n]]

NoteDel(ls, key) == [n \in DOMAIN ls \ {_lower(key)} |-> ls[n]]

RECURSIVE NoteUpdate(_, _)
NoteUpdate(ls, pairs) ==
    IF pairs = <<>> THEN ls
    ELSE NoteUpdate(NoteSet(ls, Head(pairs).key, Head(pairs).value), Tail(pairs))

Distinct(pairs) ==
    \A i, j \in DOMAIN pairs : i # j => _lower(pairs[i].key) # _lower(pairs[j].key)

\* d = cls(pairs) for cls = build_dicti(b): the state __init__ leaves
Init ==
    \E b \in Bases, pairs \in Sources(MaxInit) :
        LET o == __init__(pairs) IN
        /\ base = b
        /\ store = o.store
        /\ case = o.case
        /\ call = [op |-> "init", key |-> <<>>]
        /\ result = [exc |-> o.exc, key |-> o.key, val |-> o.val]
        /\ removed = {}
        /\ lastSet = NoteUpdate(EmptyCase, pairs)
        /\ plain = Distinct(pairs)
        /\ insOrder = IF Distinct(pairs) THEN keys(pairs) ELSE <<>>
        /\ others = <<>>
        /\ age = 0
        /\ _built_dicties = Imported.reg

\* a call that leaves the history alone
Read == UNCHANGED <<base, lastSet, insOrder, plain>>

\* d[key]
GetItem(key) ==
    /\ Effect(__getitem__(self, key), "getitem", <<key>>)
    /\ Read

\* d.get(key) and d.get(key, default)
Get(key, default) ==
    /\ Effect(get(self, key, default), "get", <<key, default[1]>>)
    /\ Read

\* key in d
Contains(key) ==
    /\ Effect(Return(store, case, <<>>, <<Bool(__contains__(self, key))>>),
              "contains", <<key>>)
    /\ Read

\* d[key] = value
SetItem(key, value) ==
    /\ Effect(__setitem__(self, key, value), "setitem", <<key>>)
    /\ lastSet' = NoteSet(lastSet, key, value)
    /\ plain' = (plain /\ _lower(key) \notin DOMAIN lastSet)
    /\ insOrder' = IF plain' THEN Append(insOrder, key) ELSE <<>>
    /\ UNCHANGED base

\* del d[key]
DelItem(key) ==
    /\ Effect(__delitem__(self, key), "delitem", <<key>>)
    /\ lastSet' = NoteDel(lastSet, key)
    /\ insOrder' = SelectSeq(insOrder, LAMBDA k : _lower(k) # _lower(key))
    /\ UNCHANGED <<base, plain>>

\* d.pop(key) and d.pop(key, default)
Pop(key, default) ==
    /\ Effect(pop(self, key, default), "pop", <<key>>)
    /\ lastSet' = NoteDel(lastSet, key)
    /\ plain' = FALSE
    /\ insOrder' = <<>>
    /\ UNCHANGED base

\* d.popitem()
PopItem ==
    /\ Effect(popitem(self), "popitem", <<>>)
    /\ lastSet' = IF store = <<>> THEN lastSet ELSE NoteDel(lastSet, store[1].key)
    /\ plain' = FALSE
    /\ insOrder' = <<>>
    /\ UNCHANGED base

\* d.setdefault(key, default)
SetDefault(key, default) ==
    /\ Effect(setdefault(self, key, default), "setdefault", <<key, default>>)
    /\ lastSet' = IF _lower(key) \in DOMAIN lastSet
                  THEN lastSet
                  ELSE NoteSet(lastSet, key, default)
    /\ plain' = FALSE
    /\ insOrder' = <<>>
    /\ UNCHANGED base

\* d.update(pairs)
Update(pairs) ==
    /\ Effect(update(self, pairs), "update", <<>>)
    /\ lastSet' = NoteUpdate(lastSet, pairs)
    /\ plain' = FALSE
    /\ insOrder' = <<>>
    /\ UNCHANGED base

\* d.clear()
Clear ==
    /\ Effect(clear(self), "clear", <<>>)
    /\ lastSet' = EmptyCase
    /\ plain' = FALSE
    /\ insOrder' = <<>>
    /\ UNCHANGED base

Defaults == {<<>>} \cup {<<v>> : v \in Values}

\* the default of get: None when none is given
GetDefaults == {<<None>>} \cup {<<v>> : v \in Values}

Next ==
    \/ \E key \in Keys : GetItem(key)
    \/ \E key \in Keys : Contains(key)
    \/ \E key \in Keys, value \in Values : SetItem(key, value)
    \/ \E key \in Keys : DelItem(key)
    \/ \E key \in Keys, default \in Defaults : Pop(key, default)
    \/ PopItem
    \/ \E key \in Keys, default \in Values : SetDefault(key, default)
    \/ \E pairs \in Sources(MaxUpdate) : Update(pairs)
    \/ Clear

Spec == Init /\ [][Next]_vars

\* ------------------------------------------------------ reading with get
\* d = cls(pairs), then any number of d.get(key) and d.get(key, default)
GetNext == \E key \in Keys, default \in GetDefaults : Get(key, default)

SpecGet == Init /\ [][GetNext]_vars

\* ------------------------------------------------- comparing two objects
\* the container d itself, as an object
d == Dictionary(1, base, self)

\* the object a name is bound to: 0 is d, n is the n-th of the others
Names == 0 .. Len(others)
Object(n) == IF n = 0 THEN d ELSE others[n]

\* after a call that leaves the object named x as o, every name bound to
\* that object sees it so
Rebind(x, o) ==
    LET id == Object(x).id IN
    /\ store' = IF id = d.id THEN o.store ELSE store
    /\ case' = IF id = d.id THEN o.case ELSE case
    /\ others' = [n \in DOMAIN others |->
                     IF others[n].id = id
                     THEN [others[n] EXCEPT !.store = o.store, !.case = o.case]
                     ELSE others[n]]

\* sources without two keys of the same lower case (others are undefined
\* behaviour for the constructor and for __eq__)
DistinctSources(max) == {pairs \in Sources(max) : Distinct(pairs)}

\* the containers of either base type built from such pairs
Containers(max) ==
    {Dictionary(2, b, __init__(pairs)) : b \in Bases, pairs \in DistinctSources(max)}

\* the plain mappings of either base type with such items, and an object
\* that is no mapping
PlainOperands(max) ==
    {Plain(2, "map", b, pairs) : b \in Bases, pairs \in DistinctSources(max)}
    \cup {Plain(2, "object", "none", <<>>)}

EqOperands == Containers(MaxInit)
EqPlainOperands == PlainOperands(MaxInit)

Reverse(s) == [i \in DOMAIN s |-> s[Len(s) + 1 - i]]

\* d = cls(pairs) and a second container to compare it with (d itself
\* included)
PairInit ==
    \E b \in Bases, pairs \in DistinctSources(MaxInit) :
        LET o == __init__(pairs) IN
        /\ base = b
        /\ store = o.store
        /\ case = o.case
        /\ \E other \in EqOperands \cup {Dictionary(1, b, o)} : others = <<other>>
        /\ plain = TRUE

\* o = odicti(pairs) as d, with i = dicti(pairs) and
\* r = odicti(reversed(pairs)), for two pairs or more
TripleInit ==
    \E pairs \in Sources(MaxInit) :
        LET o == __init__(pairs) IN
        /\ Len(pairs) >= 2
        /\ base = "OrderedDict"
        /\ store = o.store
        /\ case = o.case
        /\ others = <<Dictionary(2, "dict", __init__(pairs)),
                      Dictionary(3, "OrderedDict", __init__(Reverse(pairs)))>>
        /\ plain = Distinct(pairs)

\* d = cls(pairs) and a plain object to compare it with
PlainInit ==
    \E b \in Bases, pairs \in DistinctSources(MaxInit) :
        LET o == __init__(pairs) IN
        /\ base = b
        /\ store = o.store
        /\ case = o.case
        /\ \E other \in EqPlainOperands : others = <<other>>
        /\ plain = TRUE

\* no call has been made yet
Fresh ==
    /\ call = [op |-> "init", key |-> <<>>]
    /\ result = [exc |-> "none", key |-> <<>>, val |-> <<>>]
    /\ removed = {}
    /\ lastSet = EmptyCase
    /\ insOrder = <<>>
    /\ age = 0
    /\ _built_dicties = Imported.reg

EqInit == (PairInit \/ TripleInit) /\ Fresh

EqPlainInit == PlainInit /\ Fresh

\* Object(x) == Object(y), for a container Object(x)
Compare(x, y) ==
    /\ Object(x).kind = "Dicti"
    /\ \E o \in {__eq__(Object(x), Object(y))} :
       /\ Rebind(x, o)
       /\ call' = [op |-> "eq", key |-> <<x, y>>]
       /\ result' = [exc |-> o.exc, key |-> o.key, val |-> o.val]
    /\ UNCHANGED <<_built_dicties, base, removed, lastSet, insOrder, plain, age>>

EqNext == \E x, y \in Names : x # y /\ Compare(x, y)

SpecEq == EqInit /\ [][EqNext]_vars

SpecEqPlain == EqPlainInit /\ [][EqNext]_vars

\* ------------------------------------------- construction and update
\* the sources: a list of pairs or a plain mapping, two keys of which may
\* have the same lower case
UpdateSources(max) ==
    {Plain(2, kind, "dict", pairs) : kind \in {"list", "map"}, pairs \in Sources(max)}

\* d = cls(pairs) and a source
UpdateInit ==
    /\ \E b \in Bases, pairs \in DistinctSources(MaxUpdate) :
          LET o == __init__(pairs) IN
          /\ base = b
          /\ store = o.store
          /\ case = o.case
    /\ \E source \in UpdateSources(MaxInit) : others = <<source>>
    /\ plain = TRUE
    /\ Fresh

\* d.update(source)
UpdateFrom ==
    /\ Effect(update(self, pairs_of(others[1])), "update", <<>>)
    /\ UNCHANGED <<base, lastSet, insOrder, plain>>

\* d = cls(source)
Construct ==
    \E o \in {__init__(pairs_of(others[1]))} :
    /\ store' = o.store
    /\ case' = o.case
    /\ call' = [op |-> "init", key |-> <<>>]
    /\ result' = [exc |-> o.exc, key |-> o.key, val |-> o.val]
    /\ UNCHANGED <<_built_dicties, base, removed, lastSet, insOrder, plain,
                   others, age>>

UpdateNext == UpdateFrom \/ Construct

SpecUpdate == UpdateInit /\ [][UpdateNext]_vars

\* -------------------------------------------------------------- copies
\* d = cls(pairs), not copied yet
CopyInit ==
    /\ \E b \in Bases, pairs \in DistinctSources(MaxInit) :
          LET o == __init__(pairs) IN
          /\ base = b
          /\ store = o.store
          /\ case = o.case
    /\ others = <<>>
    /\ plain = TRUE
    /\ Fresh

\* c = d.copy()
Copy ==
    /\ others = <<>>
    /\ others' = <<copy(d, 2)>>
    /\ call' = [op |-> "copy", key |-> <<>>]
    /\ result' = [exc |-> "none", key |-> <<>>, val |-> <<>>]
    /\ removed' = {}
    /\ age' = 0
    /\ UNCHANGED <<_built_dicties, base, store, case, lastSet, insOrder, plain>>

\* a changing call on the object named x, with its outcome; the call
\* is noted with the name it was made on
CallOn(x, outcome, name, key) ==
    \E o \in {outcome} :
        /\ Rebind(x, o)
        /\ call' = [op |-> name, key |-> key, on |-> x]
        /\ result' = [exc |-> o.exc, key |-> o.key, val |-> o.val]
        /\ removed' = KeySet(Object(x).store) \ KeySet(o.store)
        /\ age' = age + 1
        /\ UNCHANGED <<_built_dicties, base, lastSet, insOrder, plain>>

SetItemOn(x, key, value) ==
    CallOn(x, __setitem__(Object(x), key, value), "setitem", <<key>>)

DelItemOn(x, key) ==
    CallOn(x, __delitem__(Object(x), key), "delitem", <<key>>)

PopOn(x, key, default) ==
    CallOn(x, pop(Object(x), key, default), "pop", <<key>>)

ClearOn(x) ==
    CallOn(x, clear(Object(x)), "clear", <<>>)

\* any set, delete, pop or clear on the object named x
ChangeOn(x) ==
    \/ \E key \in Keys, value \in Values : SetItemOn(x, key, value)
    \/ \E key \in Keys : DelItemOn(x, key)
    \/ \E key \in Keys, default \in Defaults : PopOn(x, key, default)
    \/ ClearOn(x)

CopyNext ==
    \/ Copy
    \/ /\ others # <<>>
       /\ age < MaxAfterCopy
       /\ \E x \in Names : ChangeOn(x)

SpecCopy == CopyInit /\ [][CopyNext]_vars

\* ------------------------------------------------------- building classes
\* the names and modules build_dicti is called with: none, a plain name and
\* a dotted name; none and a module
ClassNames == {<<>>, <<"odicti">>, <<"pkg", "Name">>}
ModuleNames == {"", "mod"}

\* the module imported, its two classes the objects made so far
BuildInit ==
    /\ base = "dict"
    /\ store = <<>>
    /\ case = EmptyCase
    /\ others = Imported.made
    /\ plain = TRUE
    /\ Fresh

\* cls = build_dicti(b, name, module), called from __main__
Build(b, name, module) ==
    \E o \in {build_dicti(_built_dicties, Len(others) + 1, b, name, module,
                          "__main__")} :
        /\ _built_dicties' = o.reg
        /\ others' = others \o o.made
        /\ call' = [op |-> "build_dicti", key |-> <<b>>, name |-> name,
                    module |-> module]
        /\ result' = [exc |-> o.exc, key |-> <<>>, val |-> o.cls]
        /\ UNCHANGED <<base, store, case, removed, lastSet, insOrder, plain, age>>

BuildNext ==
    \E b \in BaseTypes, name \in ClassNames, module \in ModuleNames :
        Build(b, name, module)

SpecBuild == BuildInit /\ [][BuildNext]_vars

\* ------------------------------------------- containers from mappings
\* the plain mappings Dicti is called with, two keys of which may have the
\* same lower case
DictiOperands ==
    {Plain(3, "map", b, pairs) :
        b \in {"dict", "OrderedDict", "UserDict"}, pairs \in Sources(MaxInit)}

\* the module imported, and a plain mapping obj, the third object made
DictiInit ==
    /\ base = "dict"
    /\ store = <<>>
    /\ case = EmptyCase
    /\ \E obj \in DictiOperands : others = Imported.made \o <<obj>>
    /\ plain = TRUE
    /\ Fresh

\* Dicti(obj): the class build_dicti(type(obj)) returns, called with obj
MakeDicti ==
    \E b \in {build_dicti(_built_dicties, Len(others) + 1, others[3].base,
                          <<>>, "", "pydicti")} :
        /\ _built_dicties' = b.reg
        /\ others' = others \o b.made
        /\ call' = [op |-> "Dicti", key |-> <<>>]
        /\ result' = [exc |-> b.exc, key |-> <<>>,
                      val |-> <<Dicti(others[3], Len(others') + 1)>>,
                      type |-> b.cls]
        /\ UNCHANGED <<base, store, case, removed, lastSet, insOrder, plain, age>>

\* Dicti(obj), or build_dicti(type(obj), name, module)
DictiNext ==
    \/ MakeDicti
    \/ \E name \in ClassNames, module \in ModuleNames :
          Build(others[3].base, name, module)

SpecDicti == DictiInit /\ [][DictiNext]_vars

\* --------------------------------------------- exporting the state
\* d = dicti(pairs), its state not exported yet
StateInit ==
    /\ \E pairs \in Sources(MaxInit) :
          LET o == __init__(pairs) IN
          /\ base = "dict"
          /\ store = o.store
          /\ case = o.case
          /\ lastSet = NoteUpdate(EmptyCase, pairs)
          /\ plain = Distinct(pairs)
          /\ insOrder = IF Distinct(pairs) THEN keys(pairs) ELSE <<>>
    /\ call = [op |-> "init", key |-> <<>>]
    /\ result = [exc |-> "none", key |-> <<>>, val |-> <<>>]
    /\ removed = {}
    /\ others = <<>>
    /\ age = 0
    /\ _built_dicties = Imported.reg

\* state = d.__getstate__()
GetState ==
    /\ others = <<>>
    /\ others' = <<Plain(2, "map", "dict", __getstate__(self))>>
    /\ call' = [op |-> "getstate", key |-> <<>>]
    /\ result' = [exc |-> "none", key |-> <<>>, val |-> <<>>]
    /\ removed' = {}
    /\ UNCHANGED <<_built_dicties, base, store, case, lastSet, insOrder, plain,
                   age>>

\* l = dicti(); l.__setstate__(state)
SetState ==
    /\ Len(others) = 1
    /\ \E new \in {__init__(<<>>)} :
       \E o \in {__setstate__(new, others[1].store)} :
          /\ others' = Append(others, Dictionary(3, "dict", o))
          /\ call' = [op |-> "setstate", key |-> <<>>]
          /\ result' = [exc |-> o.exc, key |-> o.key, val |-> o.val]
    /\ removed' = {}
    /\ UNCHANGED <<_built_dicties, base, store, case, lastSet, insOrder, plain,
                   age>>

\* sets on d, then the export, then the import
StateNext ==
    \/ others = <<>> /\ \E key \in Keys, value \in Values : SetItem(key, value)
    \/ GetState
    \/ SetState

SpecState == StateInit /\ [][StateNext]_vars

\* ------------------------------------------------- copies in the package
\* c = d.copy() with the classes of the package
PackageCopy ==
    /\ others = <<>>
    /\ \E o \in {package_copy(d, 2)} :
          /\ others' = o.obj
          /\ result' = [exc |-> o.exc, key |-> <<>>, val |-> <<>>]
    /\ call' = [op |-> "copy", key |-> <<>>]
    /\ removed' = {}
    /\ UNCHANGED <<_built_dicties, base, store, case, lastSet, insOrder, plain,
                   age>>

SpecPackageCopy == CopyInit /\ [][PackageCopy]_vars

\* ----------------------------------------------------------- properties
\* the container after the step
selfNext == [store |-> store', case |-> case']

\* the lower-case keys of the items, in iteration order
Norms(st) == [i \in DOMAIN st |-> _lower(st[i].key)]

\* there is an item whose key has the lower case of key
Present(st, key) == \E i \in DOMAIN st : _lower(st[i].key) = _lower(key)

\* the value of that item
ValueOf(st, key) ==
    st[CHOOSE i \in DOMAIN st : _lower(st[i].key) = _lower(key)].value

\* the items, as a set
Range(st) == {st[i] : i \in DOMAIN st}

\* the items left when that item is taken out
Without(st, key) == SelectSeq(st, LAMBDA e : _lower(e.key) # _lower(key))

\* C1: dual-index consistency.  The side table maps each lower-case key to
\* one key of the inherited dict_ with that lower case, every key of dict_ is
\* the image of its own lower case, and no two keys of dict_ share a lower
\* case.
DualIndexConsistent ==
    /\ \A n \in DOMAIN case : dict_contains(store, case[n]) /\ _lower(case[n]) = n
    /\ \A i \in DOMAIN store :
          /\ _lower(store[i].key) \in DOMAIN case
          /\ case[_lower(store[i].key)] = store[i].key
    /\ \A i, j \in DOMAIN store :
          i # j => _lower(store[i].key) # _lower(store[j].key)

\* a delete has left two items, one of them under a key that is not lower case
DualIndexWitness ==
    /\ call.op = "delitem"
    /\ result.exc = "none"
    /\ Len(store) >= 2
    /\ \E i \in DOMAIN store : store[i].key # _lower(store[i].key)

\* C2: case-insensitive lookup.  While no later call has set or deleted a
\* key with the lower case of k, every casing k2 of a key k given to set with
\* value v is contained and d[k2] is v.
CaseInsensitiveLookup ==
    \A n \in DOMAIN lastSet : \A k2 \in Keys :
        _lower(k2) = n =>
            /\ __contains__(self, k2)
            /\ __getitem__(self, k2).exc = "none"
            /\ __getitem__(self, k2).val = <<lastSet[n].value>>

\* d[k2] has returned the value set under another casing
CaseInsensitiveLookupWitness ==
    /\ call.op = "getitem"
    /\ result.exc = "none"
    /\ \E n \in DOMAIN lastSet :
          /\ _lower(call.key[1]) = n
          /\ call.key[1] # lastSet[n].key
          /\ result.val = <<lastSet[n].value>>

\* C3: last write wins the casing.  d[k2] = v2 on a container that holds an
\* item whose key has the lower case of k2 leaves one item for that lower
\* case, with key k2 and value v2; a differently cased old key is gone and
\* the number of items is as before.
LastWriteWinsCasing ==
    [][\A k2 \in Keys, v2 \in Values :
          (/\ call'.op = "setitem"
           /\ call'.key = <<k2>>
           /\ SetItem(k2, v2)
           /\ Present(store, k2))
          => /\ Cardinality({i \in DOMAIN store' :
                                _lower(store'[i].key) = _lower(k2)}) = 1
             /\ \E i \in DOMAIN store' : store'[i] = [key |-> k2, value |-> v2]
             /\ \A k1 \in KeySet(store) :
                   (_lower(k1) = _lower(k2) /\ k1 # k2) => k1 \notin KeySet(store')
             /\ Len(store') = Len(store)]_vars

\* a set has replaced an item stored under another casing
LastWriteWinsCasingWitness ==
    /\ call.op = "setitem"
    /\ result.exc = "none"
    /\ \E k1 \in removed :
          k1 # call.key[1] /\ _lower(k1) = _lower(call.key[1])
    /\ call.key[1] \in KeySet(store)

\* C4: case preservation.  keys() holds, for each live lower-case key, the
\* key as last given to set, and in the order in which items() holds the
\* pairs.
CasePreservedInKeys ==
    /\ {_lower(store[i].key) : i \in DOMAIN store} = DOMAIN lastSet
    /\ \A i \in DOMAIN store :
          keys(store)[i] = lastSet[_lower(store[i].key)].key
    /\ Len(keys(store)) = Len(items(store))
    /\ \A i \in DOMAIN store : items(store)[i][1] = keys(store)[i]

\* a key that is not lower case was set and is among the keys of two items
CasePreservedInKeysWitness ==
    /\ call.op = "setitem"
    /\ call.key[1] # _lower(call.key[1])
    /\ \E i \in DOMAIN store : keys(store)[i] = call.key[1]
    /\ Len(store) >= 2

\* C5: delete and contains agree.  After del d[k] of a contained key, no
\* casing of k is contained, d[k2] raises KeyError for each casing k2, and
\* so does a second del d[k2].
DeleteContainsConsistent ==
    [][\A k \in Keys :
          (/\ call'.op = "delitem"
           /\ call'.key = <<k>>
           /\ __contains__(self, k))
          => \A k2 \in Keys :
                _lower(k2) = _lower(k) =>
                    /\ ~__contains__(selfNext, k2)
                    /\ __getitem__(selfNext, k2).exc = "KeyError"
                    /\ __delitem__(selfNext, k2).exc = "KeyError"]_vars

\* a delete has taken out an item stored under another casing
DeleteContainsWitness ==
    /\ call.op = "delitem"
    /\ result.exc = "none"
    /\ \E k1 \in removed :
          k1 # call.key[1] /\ _lower(k1) = _lower(call.key[1])

\* C6: KeyError is raised by d[k], del d[k] and d.pop(k) exactly when no item
\* has the lower case of k; d[k] = v and k in d never raise it.
KeyErrorExactlyWhenAbsent ==
    /\ \A k \in Keys :
          /\ (__getitem__(self, k).exc = "KeyError") <=> ~Present(store, k)
          /\ (__delitem__(self, k).exc = "KeyError") <=> ~Present(store, k)
          /\ (pop(self, k, _marker).exc = "KeyError") <=> ~Present(store, k)
          /\ \A v \in Values : __setitem__(self, k, v).exc = "none"
    /\ call.op \in {"getitem", "delitem", "pop"} =>
          result.exc \in {"none", "KeyError"}
    /\ call.op \in {"setitem", "contains"} => result.exc = "none"

\* a pop without default has raised KeyError on a container that has items
KeyErrorWitness ==
    /\ call.op = "pop"
    /\ result.exc = "KeyError"
    /\ store # <<>>

\* C7: a d[k], del d[k] or d.pop(k) that raises KeyError leaves the dict_
\* and the side table as they were.
FailureLeavesState ==
    [][(/\ call'.op \in {"getitem", "delitem", "pop"}
        /\ result'.exc = "KeyError")
       => (store' = store /\ case' = case)]_vars

\* a delete has raised KeyError on a container that has items
FailureLeavesStateWitness ==
    /\ call.op = "delitem"
    /\ result.exc = "KeyError"
    /\ Len(store) >= 2

\* C8: d.pop(k) of a present key returns its value and takes the item out
\* of dict_ and the side table, whatever the casing of k; of an absent key
\* it raises KeyError without default, and with one returns it and changes
\* nothing.
PopContract ==
    [][\A k \in Keys, default \in Defaults :
          (/\ call'.op = "pop"
           /\ call'.key = <<k>>
           /\ Pop(k, default))
          => IF Present(store, k)
             THEN /\ result'.exc = "none"
                  /\ result'.val = <<ValueOf(store, k)>>
                  /\ store' = Without(store, k)
                  /\ DOMAIN case' = DOMAIN case \ {_lower(k)}
                  /\ \A n \in DOMAIN case' : case'[n] = case[n]
             ELSE IF default = _marker
             THEN result'.exc = "KeyError"
             ELSE /\ result'.exc = "none"
                  /\ result'.val = default
                  /\ store' = store
                  /\ case' = case]_vars

\* a pop has returned the value of an item stored under another casing
PopContractWitness ==
    /\ call.op = "pop"
    /\ result.exc = "none"
    /\ result.val # <<>>
    /\ \E k1 \in removed :
          k1 # call.key[1] /\ _lower(k1) = _lower(call.key[1])

\* C9: in an odicti, d[k] = v on a lower-case key that has an item keeps the
\* order of the lower-case keys; on a new one it appends.
SetKeepsPosition ==
    [][\A k \in Keys, v \in Values :
          (/\ base = "OrderedDict"
           /\ call'.op = "setitem"
           /\ call'.key = <<k>>
           /\ SetItem(k, v))
          => IF Present(store, k)
             THEN Norms(store') = Norms(store)
             ELSE Norms(store') = Append(Norms(store), _lower(k))]_vars

\* C10: in an odicti built from pairs with distinct lower-case keys and then
\* changed by sets of new keys and deletes only, keys(), values() and items()
\* are in insertion order.
InsertionOrderKept ==
    (base = "OrderedDict" /\ plain) =>
        /\ keys(store) = insOrder
        /\ values(store) =
              [i \in DOMAIN insOrder |-> lastSet[_lower(insOrder[i])].value]
        /\ items(store) =
              [i \in DOMAIN insOrder |->
                  <<insOrder[i], lastSet[_lower(insOrder[i])].value>>]

\* a delete has left two items of such an odicti
InsertionOrderWitness ==
    /\ base = "OrderedDict"
    /\ plain
    /\ call.op = "delitem"
    /\ result.exc = "none"
    /\ removed # {}
    /\ Len(store) >= 2

\* what a comparison returns
True == <<Bool(TRUE)>>
False == <<Bool(FALSE)>>

\* the last call was Object(x) == Object(y)
Compared(x, y) == call.op = "eq" /\ call.key = <<x, y>>

\* the (lower-case key, value) pairs of a container, as a set
Projection(obj) == {lower_items(obj.store)[i] : i \in DOMAIN obj.store}

\* C11: equality is symmetric.  For any two containers a and b, of the same
\* or of different base types, a == b and b == a return the same, and the
\* comparison made returned what the reflected one returns.
EqualitySymmetric ==
    \A x, y \in Names :
        (x < y /\ Object(x).kind = "Dicti" /\ Object(y).kind = "Dicti") =>
            LET forth == __eq__(Object(x), Object(y)).val
                back == __eq__(Object(y), Object(x)).val
            IN  /\ forth = back
                /\ Compared(x, y) => result.val = back
                /\ Compared(y, x) => result.val = forth

\* an odicti and a dicti with two items under differently cased keys have
\* been found equal, the dicti on the left
EqualitySymmetricWitness ==
    /\ Len(others) = 1
    /\ Compared(1, 0)
    /\ others[1].base = "dict"
    /\ base = "OrderedDict"
    /\ result.val = True
    /\ Len(store) >= 2
    /\ keys(store) # keys(others[1].store)

\* C12 as stated: with o = odicti(pairs), i = dicti(pairs) and
\* r = odicti(reversed(pairs)) for any two pairs or more, r == i, i == r,
\* i == o, o == i, r != o and o != r.
NotTransitiveAnyPairs ==
    Len(others) = 2 =>
        LET o == d
            i == others[1]
            r == others[2]
        IN  /\ __eq__(r, i).val = True
            /\ __eq__(i, r).val = True
            /\ __eq__(i, o).val = True
            /\ __eq__(o, i).val = True
            /\ __ne__(r, o)
            /\ __ne__(o, r)

\* C12, for pairs whose keys have pairwise distinct lower case: r == i,
\* i == r, i == o and o == i hold, r != o and o != r hold, and r == o and
\* o == r are false; the comparison made returned just that.
NotTransitive ==
    (Len(others) = 2 /\ plain) =>
        LET o == d
            i == others[1]
            r == others[2]
        IN  /\ __eq__(r, i).val = True
            /\ __eq__(i, r).val = True
            /\ __eq__(i, o).val = True
            /\ __eq__(o, i).val = True
            /\ __ne__(r, o)
            /\ __ne__(o, r)
            /\ __eq__(r, o).val = False
            /\ __eq__(o, r).val = False
            /\ (Compared(0, 1) \/ Compared(1, 0)) => result.val = True
            /\ (Compared(2, 1) \/ Compared(1, 2)) => result.val = True
            /\ (Compared(0, 2) \/ Compared(2, 0)) => result.val = False

\* r == o has returned False for pairs with a key that is not lower case
NotTransitiveWitness ==
    /\ Len(others) = 2
    /\ plain
    /\ Compared(2, 0)
    /\ result.val = False
    /\ \E n \in DOMAIN store : store[n].key # _lower(store[n].key)

\* C13: two containers of one base type are equal exactly when their
\* (lower-case key, value) pairs are the same: as a set for dicti, and in
\* the same order as well for odicti.  A container is equal to itself and
\* unequal to what it becomes when one value is changed, one item deleted or
\* one item added.
EqualityByProjection ==
    /\ \A x, y \in Names :
          (/\ x < y
           /\ Object(x).kind = "Dicti"
           /\ Object(y).kind = "Dicti"
           /\ Object(x).base = Object(y).base) =>
              LET a == Object(x)
                  b == Object(y)
                  same == /\ Projection(a) = Projection(b)
                          /\ a.base = "OrderedDict" =>
                                lower_items(a.store) = lower_items(b.store)
              IN  /\ __eq__(a, b).val = <<Bool(same)>>
                  /\ __eq__(b, a).val = <<Bool(same)>>
                  /\ (Compared(x, y) \/ Compared(y, x)) =>
                        result.val = <<Bool(same)>>
    /\ (Len(others) = 1 /\ others[1].id = d.id) =>
          /\ __eq__(d, others[1]).val = True
          /\ \A k \in Keys, v \in Values :
                (~Present(store, k) \/ ValueOf(store, k) # v) =>
                    LET after == Dictionary(2, base, __setitem__(self, k, v)) IN
                    /\ __eq__(after, d).val = False
                    /\ __eq__(d, after).val = False
          /\ \A k \in Keys :
                Present(store, k) =>
                    LET after == Dictionary(2, base, __delitem__(self, k)) IN
                    /\ __eq__(after, d).val = False
                    /\ __eq__(d, after).val = False

\* two odicti holding the same two items under differently cased keys have
\* been found equal
EqualityByProjectionWitness ==
    /\ Len(others) = 1
    /\ Compared(0, 1)
    /\ base = "OrderedDict"
    /\ others[1].base = "OrderedDict"
    /\ others[1].id # d.id
    /\ result.val = True
    /\ Len(store) >= 2
    /\ keys(store) # keys(others[1].store)

\* C14: comparing d with a plain mapping m (no two keys of the same lower
\* case) returns what comparing d with Dicti(m) returns; d equals every
\* plain mapping that holds d's values under d's keys, in whatever casing
\* and in d's order.
PlainComparedAsContainer ==
    (Len(others) = 1 /\ others[1].kind = "map") =>
        LET m == others[1] IN
        /\ __eq__(d, m).val = __eq__(d, Dicti(m, 3)).val
        /\ Compared(0, 1) => result.val = __eq__(d, Dicti(m, 3)).val
        /\ m.store = store => __eq__(d, m).val = True
        /\ lower_items(m.store) = lower_items(store) => __eq__(d, m).val = True

\* d has been found equal to a plain mapping of two items, one of them
\* under a key d has in another casing
PlainComparedWitness ==
    /\ Len(others) = 1
    /\ others[1].kind = "map"
    /\ Compared(0, 1)
    /\ result.val = True
    /\ Len(store) >= 2
    /\ KeySet(store) # KeySet(others[1].store)

\* C15: d == other for an other that is no mapping returns NotImplemented,
\* raises nothing and leaves both operands as they were.
NotImplementedForObject ==
    [][(/\ call'.op = "eq"
        /\ call'.key = <<0, 1>>
        /\ ~IsMapping(others[1]))
       => /\ result'.val = <<NotImplemented>>
          /\ result'.exc = "none"
          /\ store' = store
          /\ case' = case
          /\ others' = others]_vars

\* a container of two items has been compared with an object that is no
\* mapping
NotImplementedWitness ==
    /\ Len(others) = 1
    /\ others[1].kind = "object"
    /\ Compared(0, 1)
    /\ result.val = <<NotImplemented>>
    /\ Len(store) >= 2

\* set(k, v) for each pair in turn
RECURSIVE SetEach(_, _)
SetEach(c, pairs) ==
    IF pairs = <<>> THEN c
    ELSE LET s == __setitem__(c, Head(pairs).key, Head(pairs).value) IN
         SetEach([store |-> s.store, case |-> s.case], Tail(pairs))

\* the pairs that no later pair of the same lower-case key follows
LastOnes(pairs) ==
    LET at(e) == CHOOSE i \in DOMAIN pairs : pairs[i] = e IN
    SelectSeq(pairs, LAMBDA e :
        \A j \in DOMAIN pairs :
            j > at(e) => _lower(pairs[j].key) # _lower(e.key))

\* the items whose lower-case key no pair has
Untouched(st, pairs) ==
    SelectSeq(st, LAMBDA e :
        \A j \in DOMAIN pairs : _lower(pairs[j].key) # _lower(e.key))

\* C17: d = cls(source) and d.update(source) leave what d[k] = v for each
\* pair of the source in turn leaves, from the empty container and from d:
\* the items no pair touches, then for each lower-case key of the source
\* the last pair that has it, key and value as that pair gives them; the
\* inherited dict_ and the side table are consistent.
UpdateIsSetEach ==
    [][(call'.op \in {"update", "init"}) =>
          LET pairs == pairs_of(others[1])
              from == IF call'.op = "init"
                      THEN [store |-> <<>>, case |-> EmptyCase]
                      ELSE self
          IN  /\ result'.exc = "none"
              /\ selfNext = SetEach(from, pairs)
              /\ store' = Untouched(from.store, pairs) \o LastOnes(pairs)
              /\ DualIndexConsistent']_vars

\* an update from a source of two pairs with the same lower-case key has
\* replaced an item and left the key of the later pair
UpdateIsSetEachWitness ==
    /\ call.op = "update"
    /\ Len(others) = 1
    /\ Len(others[1].store) >= 2
    /\ ~Distinct(others[1].store)
    /\ removed # {}
    /\ store[Len(store)].key = others[1].store[Len(others[1].store)].key

\* C16: round trip through the items.  In every reachable state the
\* container built by d's class from list(d.items()), which is what
\* repr(d) evaluates to, is of d's class and equal to d, has d's keys in
\* their original case and d's items, in d's order for an odicti.
RoundTripThroughItems ==
    LET back == eval(__repr__(d), 2)
        same == Dictionary(2, base, __init__(unpack(items(store))))
    IN  /\ back = same
        /\ back.base = base
        /\ __eq__(back, d).val = <<Bool(TRUE)>>
        /\ __eq__(d, back).val = <<Bool(TRUE)>>
        /\ KeySet(back.store) = KeySet(store)
        /\ {items(back.store)[i] : i \in DOMAIN back.store} =
              {items(store)[i] : i \in DOMAIN store}
        /\ base = "OrderedDict" => items(back.store) = items(store)
        /\ DOMAIN back.case = DOMAIN case

\* an odicti that a set under another casing has reordered holds two items,
\* the first of them under a key that is not lower case
RoundTripWitness ==
    /\ base = "OrderedDict"
    /\ call.op = "setitem"
    /\ \E k1 \in removed : k1 # call.key[1] /\ _lower(k1) = _lower(call.key[1])
    /\ Len(store) >= 2
    /\ store[1].key # _lower(store[1].key)

\* C19: d.clear() leaves an empty dict_ and an empty side table: len(d) is
\* 0, keys(), values() and items() are empty, no key is contained, a second
\* clear() changes nothing, and d is in the state of cls(), so that every
\* later call does what it does on a new empty container.
ClearEmpties ==
    [][(call'.op = "clear") =>
          /\ result'.exc = "none"
          /\ store' = <<>>
          /\ case' = EmptyCase
          /\ len(store') = 0
          /\ keys(store') = <<>>
          /\ values(store') = <<>>
          /\ items(store') = <<>>
          /\ \A k \in Keys :
                /\ ~__contains__(selfNext, k)
                /\ __getitem__(selfNext, k).exc = "KeyError"
          /\ clear(selfNext).store = store'
          /\ clear(selfNext).case = case'
          /\ selfNext = [store |-> __init__(<<>>).store,
                         case |-> __init__(<<>>).case]]_vars

\* a clear has taken two items out, one of them under a key that is not
\* lower case
ClearEmptiesWitness ==
    /\ call.op = "clear"
    /\ Cardinality(removed) >= 2
    /\ \E k \in removed : k # _lower(k)
    /\ store = <<>>

\* C20: in every reachable state len(d) is the number of lower-case keys
\* set and not deleted since, and the size of the side table; d[k] = v on a
\* key that d holds in whatever casing leaves len(d) as it was.
LenCountsLowerKeys ==
    /\ [](/\ len(store) = Cardinality(DOMAIN lastSet)
          /\ len(store) = Cardinality(DOMAIN case)
          /\ len(store) = Cardinality({_lower(k) : k \in KeySet(store)}))
    /\ [][\A k \in Keys :
             (/\ call'.op = "setitem"
              /\ call'.key = <<k>>
              /\ Present(store, k))
             => len(store') = len(store)]_vars

\* a set under another casing of a key has left len(d) at two
LenCountsWitness ==
    /\ call.op = "setitem"
    /\ \E k1 \in removed : k1 # call.key[1] /\ _lower(k1) = _lower(call.key[1])
    /\ len(store) = 2
    /\ Cardinality(DOMAIN lastSet) = 2

\* C18: c = d.copy() is another object of d's class, equal to d, with d's
\* keys in their original case and d's values; from then on a set, delete,
\* pop or clear on d leaves c as it was, and one on c leaves d as it was.
CopyIndependent ==
    [][/\ (call'.op = "copy") =>
             LET c == others'[1] IN
             /\ c.id # d.id
             /\ c.kind = "Dicti"
             /\ c.base = base
             /\ store' = store
             /\ case' = case
             /\ __eq__(c, d).val = <<Bool(TRUE)>>
             /\ __eq__(d, c).val = <<Bool(TRUE)>>
             /\ items(c.store) = items(store)
             /\ c.case = case
       /\ (call'.op \in {"setitem", "delitem", "pop", "clear"}) =>
             /\ call'.on = 0 => others' = others
             /\ call'.on = 1 => (store' = store /\ case' = case)]_vars

\* a set on the copy under another casing of a key has left d with its own
\* key and value
CopyIndependentWitness ==
    /\ Len(others) = 1
    /\ others[1].id # d.id
    /\ call.op = "setitem"
    /\ call.on = 1
    /\ age = 1
    /\ \E n \in DOMAIN store :
          /\ store[n].key # call.key[1]
          /\ _lower(store[n].key) = _lower(call.key[1])
          /\ dict_contains(others[1].store, call.key[1])
          /\ ~dict_contains(others[1].store, store[n].key)
          /\ dict_getitem(others[1].store, call.key[1]) # store[n].value
    /\ Len(store) >= 2

\* C21: d.get(k, default) returns the value of the item whose key has the
\* lower case of k, whatever the casing of k, and default (None when none is
\* given) when there is no such item; it never raises KeyError and leaves
\* the dict_ and the side table as they were, the default is not inserted.
GetNeverChanges ==
    [][\A k \in Keys, default \in GetDefaults :
          (/\ call'.op = "get"
           /\ call'.key = <<k, default[1]>>)
          => /\ result'.exc = "none"
             /\ result'.val = IF Present(store, k)
                              THEN <<ValueOf(store, k)>>
                              ELSE default
             /\ store' = store
             /\ case' = case
             /\ ~Present(store, k) => ~__contains__(selfNext, k)]_vars

\* a get with a default has returned the value of an item stored under
\* another casing, and that value is not the default
GetNeverChangesWitness ==
    /\ call.op = "get"
    /\ result.exc = "none"
    /\ call.key[1] \notin KeySet(store)
    /\ Present(store, call.key[1])
    /\ result.val = <<ValueOf(store, call.key[1])>>
    /\ call.key[2] # None
    /\ call.key[2] # result.val[1]

\* C25: d.setdefault(k, default) on a key whose lower case an item has
\* returns the value of that item and changes nothing: not the value, not
\* the key as stored, not the position of the item; on an absent key it
\* leaves what d[k] = default leaves, the new item last, and returns default.
SetDefaultKeepsEntry ==
    [][\A k \in Keys, default \in Values :
          (/\ call'.op = "setdefault"
           /\ call'.key = <<k, default>>)
          => /\ result'.exc = "none"
             /\ IF Present(store, k)
                THEN /\ result'.val = <<ValueOf(store, k)>>
                     /\ store' = store
                     /\ case' = case
                ELSE /\ result'.val = <<default>>
                     /\ store' = __setitem__(self, k, default).store
                     /\ case' = __setitem__(self, k, default).case
                     /\ store' = Append(store, [key |-> k, value |-> default])
                     /\ case'[_lower(k)] = k]_vars

\* a setdefault under another casing, with a default that is not the stored
\* value, has left the first of two items of an odicti as it was
SetDefaultKeepsEntryWitness ==
    /\ call.op = "setdefault"
    /\ base = "OrderedDict"
    /\ Len(store) >= 2
    /\ store[1].key # call.key[1]
    /\ _lower(store[1].key) = _lower(call.key[1])
    /\ result.val = <<store[1].value>>
    /\ call.key[2] # store[1].value

\* C26: d[k] = v, del d[k] and d.pop(k) change the item whose key has the
\* lower case of k and nothing else: every other item keeps its key as
\* stored and its value, the side table keeps the other lower-case keys as
\* they were, and in an odicti the other items keep their relative order.
SingleKeyFrame ==
    [][(call'.op \in {"setitem", "delitem", "pop"}) =>
          \E n \in {_lower(call'.key[1])} :
             /\ {e \in Range(store') : _lower(e.key) # n} =
                   {e \in Range(store) : _lower(e.key) # n}
             /\ DOMAIN case' \ {n} = DOMAIN case \ {n}
             /\ \A m \in DOMAIN case \ {n} : case'[m] = case[m]
             /\ base = "OrderedDict" =>
                   Without(store', call'.key[1]) = Without(store, call'.key[1])]_vars

\* a set under another casing has replaced an item of an odicti that holds
\* two more items, and has put the new item last
SingleKeyFrameWitness ==
    /\ call.op = "setitem"
    /\ base = "OrderedDict"
    /\ Len(store) = 3
    /\ \E k1 \in removed : k1 # call.key[1] /\ _lower(k1) = _lower(call.key[1])
    /\ store[3].key = call.key[1]

\* C27: d.popitem() on a container that has items takes out the first item
\* of the iteration order (in an odicti the earliest, not the last), from the
\* dict_ and from the side table, and returns its key as stored with its
\* value; on an empty container it raises KeyError and changes nothing.
PopItemTakesFirst ==
    [][(call'.op = "popitem") =>
          IF store = <<>>
          THEN /\ result'.exc = "KeyError"
               /\ store' = store
               /\ case' = case
          ELSE /\ result'.exc = "none"
               /\ result'.key = <<store[1].key>>
               /\ result'.val = <<store[1].value>>
               /\ store' = Tail(store)
               /\ DOMAIN case' = DOMAIN case \ {_lower(store[1].key)}
               /\ \A n \in DOMAIN case' : case'[n] = case[n]
               /\ ~__contains__(selfNext, store[1].key)]_vars

\* a popitem on an odicti has returned a key that is not lower case and has
\* left two items
PopItemTakesFirstWitness ==
    /\ call.op = "popitem"
    /\ base = "OrderedDict"
    /\ result.exc = "none"
    /\ result.key # <<>>
    /\ result.key[1] # _lower(result.key[1])
    /\ removed = {result.key[1]}
    /\ Len(store) = 2

\* C22: once build_dicti(X) has returned a class T, every later
\* build_dicti(X), whatever name and module it is given and whatever other
\* types have been built in between, returns that same T: an entry of the
\* registry is never replaced or removed, a call returns the entry of its
\* base type, and build_dicti(dict) is dicti, build_dicti(OrderedDict) is
\* odicti.
FactoryMemoized ==
    /\ [](/\ "dict" \in DOMAIN _built_dicties
          /\ "OrderedDict" \in DOMAIN _built_dicties
          /\ _built_dicties["dict"] = dicti
          /\ _built_dicties["OrderedDict"] = odicti
          /\ \A b \in DOMAIN _built_dicties : _built_dicties[b].base = b
          /\ \A b, c \in DOMAIN _built_dicties :
                b # c => _built_dicties[b].id # _built_dicties[c].id)
    /\ [][/\ \A b \in DOMAIN _built_dicties :
               /\ b \in DOMAIN _built_dicties'
               /\ _built_dicties'[b] = _built_dicties[b]
          /\ (call'.op = "build_dicti" /\ result'.exc = "none") =>
               LET b == call'.key[1] IN
               /\ result'.val = <<_built_dicties'[b]>>
               /\ b \in DOMAIN _built_dicties =>
                     result'.val = <<_built_dicties[b]>>
               /\ b = "dict" => result'.val = <<dicti>>
               /\ b = "OrderedDict" => result'.val = <<odicti>>]_vars

\* build_dicti(UserDict), given a name and a module, has returned the class
\* made earlier under the default name, after a class for another type was
\* made in between
FactoryMemoizedWitness ==
    /\ call.op = "build_dicti"
    /\ call.key = <<"UserDict">>
    /\ call.name # <<>>
    /\ call.module # ""
    /\ result.val # <<>>
    /\ result.val[1].qualname = DefaultName("UserDict")
    /\ "defaultdict" \in DOMAIN _built_dicties
    /\ _built_dicties["defaultdict"].id > result.val[1].id

\* C23: build_dicti on a type that is no mutable mapping raises TypeError
\* and leaves the registry as it was: no entry for that type, no class
\* made, and every type that has a class still gets that class.
InvalidBaseRejected ==
    [][(call'.op = "build_dicti" /\ ~issubclass(call'.key[1])) =>
          /\ result'.exc = "TypeError"
          /\ result'.val = <<>>
          /\ _built_dicties' = _built_dicties
          /\ call'.key[1] \notin DOMAIN _built_dicties'
          /\ others' = others
          /\ \A b \in DOMAIN _built_dicties :
                build_dicti(_built_dicties', Len(others') + 1, b, <<>>, "",
                            "__main__").cls = <<_built_dicties[b]>>]_vars

\* build_dicti(list) has raised TypeError while the registry holds a class
\* made after the import
InvalidBaseRejectedWitness ==
    /\ call.op = "build_dicti"
    /\ call.key = <<"list">>
    /\ result.exc = "TypeError"
    /\ "UserDict" \in DOMAIN _built_dicties
    /\ "list" \notin DOMAIN _built_dicties

\* what C24 says of a call Dicti(obj), for every obj or for those without
\* two keys of the same lower case
DictiReturns(anyPairs) ==
    (call'.op = "Dicti") =>
        LET obj == others[3]
            inst == result'.val[1]
            type == result'.type[1]
        IN  /\ result'.exc = "none"
            /\ <<type>> = build_dicti(_built_dicties', Len(others') + 1,
                                      obj.base, <<>>, "", "__main__").cls
            /\ obj.base \in DOMAIN _built_dicties =>
                  type = _built_dicties[obj.base]
            /\ obj.base = "OrderedDict" => type = odicti
            /\ obj.base = "dict" => type = dicti
            /\ type.base = obj.base
            /\ inst.kind = "Dicti"
            /\ inst.base = type.base
            /\ (anyPairs \/ Distinct(obj.store)) => inst.store = obj.store
            /\ inst.store = LastOnes(obj.store)
            /\ __eq__(inst, Dictionary(0, obj.base, __init__(obj.store))).val
                  = True
            /\ __eq__(Dictionary(0, obj.base, __init__(obj.store)), inst).val
                  = True

\* C24 as stated: Dicti(obj) is of the class build_dicti(type(obj)) returns,
\* the one of odicti for an OrderedDict, holds the pairs of obj in the order
\* of obj, and equals the container of that class built from those pairs.
DictiKeepsAnyPairs == [][DictiReturns(TRUE)]_vars

\* C24, for an obj no two keys of which have the same lower case: Dicti(obj)
\* is of the class build_dicti(type(obj)) returns, the one of odicti for an
\* OrderedDict, holds the pairs of obj in the order of obj, and equals the
\* container of that class built from those pairs; of several keys of obj
\* with one lower case only the last is kept.
DictiOfMapping == [][DictiReturns(FALSE)]_vars

\* Dicti of an OrderedDict with two items, one under a key that is not
\* lower case, has returned an odicti
DictiOfMappingWitness ==
    /\ call.op = "Dicti"
    /\ others[3].base = "OrderedDict"
    /\ Len(others[3].store) >= 2
    /\ Distinct(others[3].store)
    /\ \E n \in DOMAIN others[3].store :
          others[3].store[n].key # _lower(others[3].store[n].key)
    /\ result.type = <<odicti>>
    /\ result.val[1].store = others[3].store

\* C28: for a dicti d, state = d.__getstate__() is a plain dict with d's
\* items, and a new empty dicti that state is given to with __setstate__
\* has d's items in their original case, is equal to d, and its side table
\* is rebuilt to match its dict_.
StateRoundTrip ==
    [][/\ (call'.op = "getstate") =>
             /\ others'[1].kind = "map"
             /\ others'[1].base = "dict"
             /\ items(others'[1].store) = items(store)
             /\ store' = store
             /\ case' = case
       /\ (call'.op = "setstate") =>
             LET l == others'[2] IN
             /\ result'.exc = "none"
             /\ l.id # d.id
             /\ l.kind = "Dicti"
             /\ l.base = base
             /\ items(l.store) = items(store)
             /\ __eq__(l, d).val = True
             /\ __eq__(d, l).val = True
             /\ l.case = case
             /\ \A n \in DOMAIN l.case :
                   dict_contains(l.store, l.case[n]) /\ _lower(l.case[n]) = n
             /\ \A i \in DOMAIN l.store :
                   /\ _lower(l.store[i].key) \in DOMAIN l.case
                   /\ l.case[_lower(l.store[i].key)] = l.store[i].key
             /\ store' = store
             /\ case' = case]_vars

\* the state of a dicti of two items, the first under a key that is not
\* lower case, has been imported into a new dicti
StateRoundTripWitness ==
    /\ call.op = "setstate"
    /\ Len(others) = 2
    /\ Len(store) >= 2
    /\ store[1].key # _lower(store[1].key)
    /\ others[2].store = store
    /\ others[2].case = case

\* C29: in the package, c = d.copy() is a new container of d's class whose
\* items, keys in their original case and values, are those of d, for
\* every d.
PackageCopyCopies ==
    [][(call'.op = "copy") =>
          /\ result'.exc = "none"
          /\ Len(others') = 1
          /\ others'[1].id # d.id
          /\ others'[1].kind = "Dicti"
          /\ others'[1].base = base
          /\ items(others'[1].store) = items(store)
          /\ store' = store
          /\ case' = case]_vars

====
